---------------------------- MODULE Spec2Model ----------------------------
(***************************************************************************)
(* Model of codeql_n1ght_mcp_server.py: five MCP tools that turn their     *)
(* parameters into an argument vector for an external executable, spawn   *)
(* it as a child process and supervise it with a timeout.                 *)
(*                                                                         *)
(* Python values are modelled as follows.                                  *)
(*   str            a TLA+ string (Len, SubSeq and \o act on characters)   *)
(*   Optional[T]    None is <<>>, a value v is <<v>>                       *)
(*   float seconds  an integer number of milliseconds                      *)
(*   bytes          a sequence of byte values 0..255                       *)
(*   List[str]      a sequence of strings                                  *)
(* A coroutine runs without interruption between two awaits, so each       *)
(* action below is one such stretch of a tool handler.                     *)
(***************************************************************************)
EXTENDS Integers, Sequences, FiniteSets, TLC

None == <<>>
Some(v) == <<v>>

\* Number of tool invocations that may be in flight at the same time.
NumInv == 2

Invocations == 1..NumInv

---------------------------------------------------------------------------
(* Strings *)

CharAt(s, k) == SubSeq(s, k, k)

UpperCase == "ABCDEFGHIJKLMNOPQRSTUVWXYZ"
LowerCase == "abcdefghijklmnopqrstuvwxyz"

LowerChar(c) ==
    IF \E k \in 1..26 : CharAt(UpperCase, k) = c
    THEN CharAt(LowerCase, CHOOSE k \in 1..26 : CharAt(UpperCase, k) = c)
    ELSE c

RECURSIVE Lower(_)
\* str.lower()
Lower(s) == IF s = "" THEN "" ELSE LowerChar(CharAt(s, 1)) \o Lower(Tail(s))

IsSpace(c) == c \in {" ", "\t", "\n", "\r"}

RECURSIVE LStrip(_)
LStrip(s) == IF s # "" /\ IsSpace(CharAt(s, 1)) THEN LStrip(Tail(s)) ELSE s

RECURSIVE RStrip(_)
RStrip(s) ==
    IF s # "" /\ IsSpace(CharAt(s, Len(s)))
    THEN RStrip(SubSeq(s, 1, Len(s) - 1))
    ELSE s

\* str.strip()
Strip(s) == RStrip(LStrip(s))

\* Truthiness of an Optional[str]: None and "" are both false.
Truthy(o) == o # None /\ o[1] # ""

\* isinstance(x, int) for an Optional[int]
IsInt(o) == o # None

\* str(n) for an int
Str(n) == ToString(n)

---------------------------------------------------------------------------
(* The file system and the process's working directory, as the server     *)
(* finds them.  os.path is posixpath: "/" separates and roots a path.      *)

ProcessCwd == "/srv"

\* What os.path.exists and the exec call see at an absolute path.
FileKind(path) ==
    CASE path = "/opt/n1ght"                    -> "exec"
      [] path = "/srv/j:/mcp/codeql-n1ght.exe"  -> "exec"
      [] path = "/opt/notes.txt"                -> "noexec"
      [] path = "/srv"                          -> "dir"
      [] path = "/opt"                          -> "dir"
      [] OTHER                                  -> "missing"

Exists(path) == FileKind(path) # "missing"

---------------------------------------------------------------------------
(* Path resolver *)

EXE_PATH == "J:\\\\mcp\\\\codeql-n1ght.exe"

RECURSIVE SplitSlash(_, _)
\* path.split("/"): cur is the component being read
SplitSlash(s, cur) ==
    IF s = "" THEN <<cur>>
    ELSE IF CharAt(s, 1) = "/" THEN <<cur>> \o SplitSlash(Tail(s), "")
    ELSE SplitSlash(Tail(s), cur \o CharAt(s, 1))

RECURSIVE NormComps(_, _, _)
\* the component loop of posixpath.normpath
NormComps(comps, acc, rooted) ==
    IF comps = <<>> THEN acc
    ELSE LET c == Head(comps) IN
         IF c = "" \/ c = "." THEN NormComps(Tail(comps), acc, rooted)
         ELSE IF c # ".." \/ (~rooted /\ acc = <<>>)
                          \/ (acc # <<>> /\ acc[Len(acc)] = "..")
              THEN NormComps(Tail(comps), Append(acc, c), rooted)
         ELSE IF acc # <<>>
              THEN NormComps(Tail(comps), SubSeq(acc, 1, Len(acc) - 1), rooted)
         ELSE NormComps(Tail(comps), acc, rooted)

RECURSIVE JoinSlash(_)
JoinSlash(comps) ==
    IF comps = <<>> THEN ""
    ELSE IF Len(comps) = 1 THEN comps[1]
    ELSE comps[1] \o "/" \o JoinSlash(Tail(comps))

\* posixpath.normpath, for paths with at most one leading slash
NormPath(path) ==
    IF path = "" THEN "."
    ELSE LET rooted == CharAt(path, 1) = "/"
             joined == JoinSlash(NormComps(SplitSlash(path, ""), <<>>, rooted))
         IN IF rooted THEN "/" \o joined
            ELSE IF joined = "" THEN "." ELSE joined

\* os.path.abspath
AbsPath(path) ==
    IF path # "" /\ CharAt(path, 1) = "/"
    THEN NormPath(path)
    ELSE NormPath(ProcessCwd \o "/" \o path)

_resolve_exe_path(custom_path) ==
    LET path == Strip(IF Truthy(custom_path) THEN custom_path[1] ELSE EXE_PATH)
    IN  AbsPath(IF path # "" /\ CharAt(path, 1) = "/" /\ Len(path) > 2
                   /\ CharAt(path, 3) = ":"
                THEN Tail(path)
                ELSE path)

---------------------------------------------------------------------------
(* Result records *)

ExecutionResult(rc, out, err, timedOut) ==
    [returncode |-> rc, stdout |-> out, stderr |-> err, timeout |-> timedOut]

\* The record every tool returns when the resolved path does not exist.
ExeNotFound(resolved_path) ==
    ExecutionResult(None, "", "Executable not found: " \o resolved_path, FALSE)

\* What a tool does once its synchronous prefix has run: return a record
\* at once, or hand an argument vector to _run_subprocess.
ReturnNow(res) == [kind |-> "return", result |-> res, cmd |-> <<>>]
RunCmd(cmd)    == [kind |-> "spawn", result |-> ExecutionResult(None, "", "", FALSE),
                   cmd |-> cmd]

---------------------------------------------------------------------------
(* Command builder: one operator per tool, from the tool's parameters to   *)
(* what it does before its first await of _run_subprocess.                 *)

OptPair(flag, o)  == IF Truthy(o) THEN <<flag, o[1]>> ELSE <<>>
\* "if n:" in place of "if isinstance(n, int):"
OptIntIfTruthy(flag, o) ==
    IF o # None /\ o[1] # 0 THEN <<flag, Str(o[1])>> ELSE <<>>
OptInt(flag, o)   == IF IsInt(o) THEN <<flag, Str(o[1])>> ELSE <<>>
OptFlag(flag, b)  == IF b THEN <<flag>> ELSE <<>>

run_codeql_n1ght(r) ==
    LET resolved_path == _resolve_exe_path(r.exe_path) IN
    IF ~Exists(resolved_path) THEN ReturnNow(ExeNotFound(resolved_path))
    ELSE RunCmd(<<resolved_path>> \o (IF r.args = None THEN <<>> ELSE r.args[1]))

\* version's first attempt; the fallback is VersionFallback below.
version(r) ==
    LET resolved_path == _resolve_exe_path(r.exe_path) IN
    IF ~Exists(resolved_path) THEN ReturnNow(ExeNotFound(resolved_path))
    ELSE RunCmd(<<resolved_path, "--version">>)

install_environment(r) ==
    LET resolved_path == _resolve_exe_path(r.exe_path) IN
    IF ~Exists(resolved_path) THEN ReturnNow(ExeNotFound(resolved_path))
    ELSE RunCmd(<<resolved_path, "-install">>
                \o OptPair("-jdk", r.jdk_url)
                \o OptPair("-ant", r.ant_url)
                \o OptPair("-codeql", r.codeql_url))

Decompilers == {"procyon", "fernflower"}
DepsModes   == {"none", "all"}

InvalidDecompiler(decompiler) ==
    ExecutionResult(None, "",
        "Invalid decompiler: " \o decompiler
            \o ". Expected 'procyon' or 'fernflower'", FALSE)

InvalidDeps(deps) ==
    ExecutionResult(None, "",
        "Invalid deps: " \o deps
            \o ". Expected 'none' or 'all' or leave empty to use interactive TUI",
        FALSE)

\* the modifiers shared by create_database and scan_database
ParallelArgs(r) ==
    OptFlag("-goroutine", r.goroutine)
    \o OptInt("-max-goroutines", r.max_goroutines)
    \o OptInt("-threads", r.threads)
    \o OptFlag("-clean-cache", r.clean_cache)

DecompilerArgs(decompiler) ==
    IF Truthy(decompiler) THEN <<"-decompiler", Strip(Lower(decompiler[1]))>>
    ELSE <<>>

\* "if deps is not None:" in place of "if deps:"
DepsArgsIfNotNone(deps) ==
    IF deps # None THEN <<"-deps", Strip(Lower(deps[1]))>> ELSE <<>>

DepsArgs(deps) ==
    IF Truthy(deps) THEN <<"-deps", Strip(Lower(deps[1]))>> ELSE <<>>

DecompilerOk(decompiler) ==
    Truthy(decompiler) => Strip(Lower(decompiler[1])) \in Decompilers

\* the check of deps left out
DepsOkUnchecked(deps) == TRUE

DepsOk(deps) ==
    Truthy(deps) => Strip(Lower(deps[1])) \in DepsModes

\* the parameters validated before the executable is looked for
create_database_validating_first(r) ==
    LET resolved_path == _resolve_exe_path(r.exe_path) IN
    IF ~DecompilerOk(r.decompiler)
    THEN ReturnNow(InvalidDecompiler(r.decompiler[1]))
    ELSE IF ~DepsOk(r.deps)
         THEN ReturnNow(InvalidDeps(r.deps[1]))
    ELSE IF ~Exists(resolved_path) THEN ReturnNow(ExeNotFound(resolved_path))
    ELSE RunCmd(<<resolved_path, "-database", r.target>>
                \o DecompilerArgs(r.decompiler)
                \o OptPair("-dir", r.extra_src_dir)
                \o DepsArgs(r.deps)
                \o ParallelArgs(r))

create_database(r) ==
    LET resolved_path == _resolve_exe_path(r.exe_path) IN
    IF ~Exists(resolved_path) THEN ReturnNow(ExeNotFound(resolved_path))
    ELSE IF ~DecompilerOk(r.decompiler)
         THEN ReturnNow(InvalidDecompiler(r.decompiler[1]))
    ELSE IF ~DepsOk(r.deps)
         THEN ReturnNow(InvalidDeps(r.deps[1]))
    ELSE RunCmd(<<resolved_path, "-database", r.target>>
                \o DecompilerArgs(r.decompiler)
                \o OptPair("-dir", r.extra_src_dir)
                \o DepsArgs(r.deps)
                \o ParallelArgs(r))

scan_database(r) ==
    LET resolved_path == _resolve_exe_path(r.exe_path) IN
    IF ~Exists(resolved_path) THEN ReturnNow(ExeNotFound(resolved_path))
    ELSE RunCmd(<<resolved_path, "-scan">>
                \o OptPair("-db", r.db)
                \o OptPair("-ql", r.ql)
                \o ParallelArgs(r))

\* The router: the tool named by the request.
Tool(r) ==
    CASE r.op = "run_codeql_n1ght"    -> run_codeql_n1ght(r)
      [] r.op = "version"             -> version(r)
      [] r.op = "install_environment" -> install_environment(r)
      [] r.op = "create_database"     -> create_database(r)
      [] r.op = "scan_database"       -> scan_database(r)

\* cwd handed to _run_subprocess: version always passes None.
ToolCwd(r) == IF r.op = "version" THEN None ELSE r.cwd

---------------------------------------------------------------------------
(* Process supervisor: pure parts *)

\* The ASCII characters of code points 32 to 95 and 97 to 126.
AsciiLow  == " !\"#$%&'()*+,-./0123456789:;<=>?@ABCDEFGHIJKLMNOPQRSTUVWXYZ[\\]^_"
AsciiHigh == "abcdefghijklmnopqrstuvwxyz{|}~"

\* Stands for the single character U+FFFD.
ReplacementChar == "<U+FFFD>"

\* One byte decoded as UTF-8 with errors="replace".  The bytes of the model
\* are those of the two tables and 255, which no UTF-8 sequence contains.
DecodeByte(b) ==
    IF b >= 32 /\ b <= 95 THEN CharAt(AsciiLow, b - 31)
    ELSE IF b >= 97 /\ b <= 126 THEN CharAt(AsciiHigh, b - 96)
    ELSE ReplacementChar

RECURSIVE DecodeBytes(_)
DecodeBytes(bs) ==
    IF bs = <<>> THEN "" ELSE DecodeByte(Head(bs)) \o DecodeBytes(Tail(bs))

\* stdout_b.decode(errors="replace") if stdout_b else ""
Decode(bs) == IF bs # <<>> THEN DecodeBytes(bs) ELSE ""

RECURSIVE StripZeros(_)
StripZeros(digits) ==
    IF Len(digits) > 1 /\ CharAt(digits, Len(digits)) = "0"
    THEN StripZeros(SubSeq(digits, 1, Len(digits) - 1))
    ELSE digits

\* f"{timeout}" for a non-negative float given in milliseconds
FormatSeconds(ms) ==
    LET frac == ms % 1000
        pad  == IF frac < 10 THEN "00" ELSE IF frac < 100 THEN "0" ELSE ""
    IN  Str(ms \div 1000) \o "." \o StripZeros(pad \o Str(frac))

FormatTimeout(timeout) ==
    IF timeout = None THEN "None" ELSE FormatSeconds(timeout[1])

\* the timeout flag left false
TimeoutResultUnflagged(timeout) ==
    ExecutionResult(None, "",
        "Process timeout after " \o FormatTimeout(timeout) \o " seconds", FALSE)

\* The record _run_subprocess returns when wait_for raises TimeoutError.
TimeoutResult(timeout) ==
    ExecutionResult(None, "",
        "Process timeout after " \o FormatTimeout(timeout) \o " seconds", TRUE)

\* The record _run_subprocess returns when communicate() finishes; exit is
\* the child's exit status and the bytes it wrote to its two pipes.
CompletedResult(exit) ==
    ExecutionResult(Some(exit.returncode), Decode(exit.out), Decode(exit.err), FALSE)

\* The exception asyncio.create_subprocess_exec raises, "" if it spawns.
SpawnError(cmd, cwd) ==
    IF cwd # None /\ FileKind(cwd[1]) = "missing" THEN "FileNotFoundError"
    ELSE IF cwd # None /\ FileKind(cwd[1]) # "dir" THEN "NotADirectoryError"
    ELSE IF FileKind(cmd[1]) = "missing" THEN "FileNotFoundError"
    ELSE IF FileKind(cmd[1]) # "exec" THEN "PermissionError"
    ELSE ""

\* asyncio.wait_for(fut, timeout) can return fut's result: with no timeout
\* it waits for it, with a timeout of zero or less it cancels a future
\* that is not done when it is called, as communicate() never is.
CanComplete(timeout) == IF timeout = None THEN TRUE ELSE timeout[1] > 0

\* the test without its stdout half
VersionSucceededByStatus(r) == r.returncode = Some(0)

\* version's test on its first attempt: res.get("returncode") == 0 and
\* res.get("stdout")
VersionSucceeded(r) == r.returncode = Some(0) /\ r.stdout # ""

NewChild(cmd, cwd) == [cmd |-> cmd, cwd |-> cwd, state |-> "running", exit |-> None]

---------------------------------------------------------------------------
(* State *)

VARIABLES
    pc,      \* pc[i]: "idle", "waiting" (suspended in wait_for), "returned", "raised"
    req,     \* req[i]: the parameters invocation i was called with, None before
    procs,   \* procs[i]: the child processes invocation i has spawned, in order
    res,     \* res[i]: version's local res, the record of its first attempt
    result,  \* result[i]: the record invocation i returned, None before
    exc      \* exc[i]: the exception that escaped invocation i, "" if none

vars == <<pc, req, procs, res, result, exc>>

Init ==
    /\ pc     = [i \in Invocations |-> "idle"]
    /\ req    = [i \in Invocations |-> None]
    /\ procs  = [i \in Invocations |-> <<>>]
    /\ res    = [i \in Invocations |-> None]
    /\ result = [i \in Invocations |-> None]
    /\ exc    = [i \in Invocations |-> ""]

\* The child invocation i is supervising.
Child(i) == procs[i][Len(procs[i])]

\* no kill sent
KillSkipped(ps, i) == ps

\* a kill sent to every running child of the server
KillEveryChild(ps, i) ==
    [j \in Invocations |->
        [k \in 1..Len(ps[j]) |->
            IF ps[j][k].state = "running"
            THEN [ps[j][k] EXCEPT !.state = "killed"]
            ELSE ps[j][k]]]

\* proc.kill(): signals invocation i's own child; on a child that is
\* already gone it raises ProcessLookupError, which the caller swallows.
Kill(ps, i) ==
    LET n == Len(ps[i]) IN
    IF ps[i][n].state = "running"
    THEN [ps EXCEPT ![i][n].state = "killed"]
    ELSE ps

\* _run_subprocess up to its first await on the child: spawn cmd; ps is
\* the process table the spawn acts on.
StartSubprocess(i, ps, cmd, cwd) ==
    LET err == SpawnError(cmd, cwd) IN
    IF err # ""
    THEN /\ pc' = [pc EXCEPT ![i] = "raised"]
         /\ exc' = [exc EXCEPT ![i] = err]
         /\ procs' = ps
         /\ UNCHANGED result
    ELSE /\ pc' = [pc EXCEPT ![i] = "waiting"]
         /\ procs' = [ps EXCEPT ![i] = Append(@, NewChild(cmd, cwd))]
         /\ UNCHANGED <<result, exc>>

\* The tool's code after _run_subprocess has returned res: version falls
\* back to --help after a failed first attempt, every other tool returns.
AfterSubprocess(i, ps, r) ==
    /\ res' = IF req[i][1].op = "version" /\ Len(ps[i]) = 1
              THEN [res EXCEPT ![i] = Some(r)]
              ELSE res
    /\ IF req[i][1].op = "version" /\ Len(ps[i]) = 1 /\ ~VersionSucceeded(r)
       THEN StartSubprocess(i, ps,
               <<_resolve_exe_path(req[i][1].exe_path), "--help">>, None)
       ELSE /\ pc' = [pc EXCEPT ![i] = "returned"]
            /\ result' = [result EXCEPT ![i] = Some(r)]
            /\ procs' = ps
            /\ UNCHANGED exc

---------------------------------------------------------------------------
(* Actions *)

\* A tool is called with request r and runs to its first suspension.
Call(i, r) ==
    /\ pc[i] = "idle"
    /\ req' = [req EXCEPT ![i] = Some(r)]
    /\ UNCHANGED res
    /\ LET plan == Tool(r) IN
       IF plan.kind = "return"
       THEN /\ pc' = [pc EXCEPT ![i] = "returned"]
            /\ result' = [result EXCEPT ![i] = Some(plan.result)]
            /\ UNCHANGED <<procs, exc>>
       ELSE StartSubprocess(i, procs, plan.cmd, ToolCwd(r))

\* The child of invocation i exits on its own.
ChildExit(i, exit) ==
    /\ pc[i] = "waiting"
    /\ Child(i).state = "running"
    /\ procs' = [procs EXCEPT ![i][Len(procs[i])] =
                    [@ EXCEPT !.state = "exited", !.exit = Some(exit)]]
    /\ UNCHANGED <<pc, req, res, result, exc>>

\* communicate() finishes before the timeout: wait_for hands back the
\* output.
Complete(i) ==
    /\ pc[i] = "waiting"
    /\ Child(i).state = "exited"
    /\ CanComplete(req[i][1].timeout_seconds)
    /\ AfterSubprocess(i, procs, CompletedResult(Child(i).exit[1]))
    /\ UNCHANGED req

\* The timeout elapses first: wait_for raises TimeoutError.
Timeout(i) ==
    /\ pc[i] = "waiting"
    /\ req[i][1].timeout_seconds # None
    /\ AfterSubprocess(i, Kill(procs, i), TimeoutResult(req[i][1].timeout_seconds))
    /\ UNCHANGED req

---------------------------------------------------------------------------
(* Inputs *)

\* A call with every optional parameter left out.
BaseRequest(op) ==
    [op |-> op, args |-> None,
     jdk_url |-> None, ant_url |-> None, codeql_url |-> None,
     target |-> "", decompiler |-> None, extra_src_dir |-> None, deps |-> None,
     goroutine |-> FALSE, max_goroutines |-> None, threads |-> None,
     clean_cache |-> FALSE, db |-> None, ql |-> None,
     exe_path |-> None, cwd |-> None, timeout_seconds |-> Some(10)]

\* exe_path values: the default (missing here), an executable given with
\* surrounding blanks, the "/j:" form, a file without the execute bit and
\* a blank string, which resolves to the working directory.
ExePaths == {None, Some(" /opt/n1ght "), Some("/j:/mcp/codeql-n1ght.exe"),
             Some("/opt/notes.txt"), Some("  ")}

\* The two exe_path values the builder's own branches depend on.
BuildExePaths == {None, Some("/opt/n1ght")}

Timeouts == {None, Some(0), Some(10), Some(60000)}

OptInts == {None, Some(0), Some(8)}

RunRequests ==
    { [BaseRequest("run_codeql_n1ght") EXCEPT
          !.args = a, !.exe_path = e, !.cwd = c, !.timeout_seconds = t] :
      a \in {None, Some(<<>>), Some(<<"-install">>), Some(<<"-scan", "-deps">>)},
      e \in ExePaths, c \in {None, Some("/opt"), Some("/nowhere")},
      t \in Timeouts }

VersionRequests ==
    { [BaseRequest("version") EXCEPT !.exe_path = e, !.timeout_seconds = t] :
      e \in ExePaths, t \in Timeouts }

InstallRequests ==
    { [BaseRequest("install_environment") EXCEPT
          !.jdk_url = j, !.ant_url = a, !.codeql_url = q, !.exe_path = e] :
      j \in {None, Some(""), Some("http://jdk")},
      a \in {None, Some("http://ant")},
      q \in {None, Some(""), Some("-jdk")},
      e \in BuildExePaths }

CreateRequests ==
    { [BaseRequest("create_database") EXCEPT
          !.target = tg, !.decompiler = dc, !.extra_src_dir = x, !.deps = dp,
          !.goroutine = g, !.max_goroutines = m, !.threads = th,
          !.clean_cache = cc, !.exe_path = e] :
      tg \in {"app.jar", "-deps"},
      dc \in {None, Some(""), Some(" Procyon"), Some("fernflower"),
              Some("cobol"), Some("  ")},
      x  \in {None, Some("src"), Some("-decompiler")},
      dp \in {None, Some(""), Some("ALL "), Some("none"), Some("some")},
      g  \in BOOLEAN, m \in OptInts, th \in {None, Some(4)},
      cc \in BOOLEAN, e \in BuildExePaths }

ScanRequests ==
    { [BaseRequest("scan_database") EXCEPT
          !.db = d, !.ql = q, !.goroutine = g, !.max_goroutines = m,
          !.threads = th, !.clean_cache = cc, !.exe_path = e] :
      d \in {None, Some(""), Some("db"), Some("-ql")},
      q \in {None, Some("ql"), Some("-threads")},
      g \in BOOLEAN, m \in OptInts, th \in {None, Some(4), Some(-1)},
      cc \in BOOLEAN, e \in BuildExePaths }

\* Every request of the model.
AllRequests ==
    RunRequests \cup VersionRequests \cup InstallRequests
        \cup CreateRequests \cup ScanRequests

\* The requests two or more concurrent invocations are run with: one of
\* each way a call can go.
ConcurrentRequests ==
    { [BaseRequest("run_codeql_n1ght") EXCEPT !.args = Some(<<"-install">>)],
      [BaseRequest("run_codeql_n1ght") EXCEPT
          !.args = Some(<<"-install">>), !.exe_path = Some("/opt/notes.txt")],
      [BaseRequest("create_database") EXCEPT
          !.target = "app.jar", !.decompiler = Some("cobol"),
          !.exe_path = Some("/opt/n1ght")],
      [BaseRequest("version") EXCEPT !.exe_path = Some("/opt/n1ght")] }
    \cup
    { [BaseRequest("scan_database") EXCEPT
          !.threads = Some(4), !.clean_cache = TRUE,
          !.exe_path = Some("/opt/n1ght"), !.timeout_seconds = t] :
      t \in {None, Some(60000)} }

\* What a child can exit with: status, stdout bytes, stderr bytes.
ChildExits ==
    { [returncode |-> 0,  out |-> <<104, 105>>, err |-> <<>>],
      [returncode |-> 0,  out |-> <<>>,         err |-> <<119>>],
      [returncode |-> -9, out |-> <<104, 255>>, err |-> <<101, 255, 33>>] }

---------------------------------------------------------------------------
(* Specifications *)

\* The server with NumInv invocations in flight.
Next ==
    \E i \in Invocations :
        \/ \E r \in ConcurrentRequests : Call(i, r)
        \/ \E exit \in ChildExits : ChildExit(i, exit)
        \/ Complete(i)
        \/ Timeout(i)

Spec == Init /\ [][Next]_vars

\* The event loop runs a timer that is due, and resumes a coroutine whose
\* awaited output is complete; nothing makes a child exit.
FairSpec ==
    Spec /\ \A i \in Invocations : WF_vars(Timeout(i)) /\ WF_vars(Complete(i))

\* One invocation, called with every request of the model.
NextOne ==
    \/ \E r \in AllRequests : Call(1, r)
    \/ \E exit \in ChildExits : ChildExit(1, exit)
    \/ Complete(1)
    \/ Timeout(1)

SpecOne == Init /\ [][NextOne]_vars

---------------------------------------------------------------------------
(* Vocabulary of the properties *)

Called(i)   == req[i] # None
Request(i)  == req[i][1]
Returned(i) == pc[i] = "returned"
Record(i)   == result[i][1]
Spawned(i)  == procs[i] # <<>>
Resolved(i) == _resolve_exe_path(Request(i).exe_path)

EndsWith(s, t) ==
    Len(s) >= Len(t) /\ SubSeq(s, Len(s) - Len(t) + 1, Len(s)) = t

Contains(s, t) ==
    \E a \in 1..(Len(s) - Len(t) + 1) : SubSeq(s, a, a + Len(t) - 1) = t

\* The flags of the external command line that take a value, as the tools'
\* docstrings give them; every other token that is not a value is a switch.
ValueFlags ==
    {"-database", "-decompiler", "-dir", "-deps", "-max-goroutines", "-threads",
     "-db", "-ql", "-jdk", "-ant", "-codeql"}

RECURSIVE Options(_)
\* An argument list read left to right as flags, each with its value.
Options(args) ==
    IF args = <<>> THEN <<>>
    ELSE IF Head(args) \in ValueFlags /\ Len(args) >= 2
         THEN <<[flag |-> args[1], value |-> Some(args[2])]>>
                  \o Options(SubSeq(args, 3, Len(args)))
         ELSE <<[flag |-> args[1], value |-> None]>> \o Options(Tail(args))

\* The flags of the first command invocation i spawned.
FirstOptions(i) == Options(Tail(procs[i][1].cmd))

HasFlag(opts, flag) == \E k \in 1..Len(opts) : opts[k].flag = flag

\* A supplied value of an enumerated parameter that is not in its set,
\* compared after lower-casing and trimming.
InvalidChoice(o, allowed) == Truthy(o) /\ Strip(Lower(o[1])) \notin allowed

InvalidCreate(r) ==
    \/ InvalidChoice(r.decompiler, Decompilers)
    \/ InvalidChoice(r.deps, DepsModes)

\* stderr names an invalid value of r and the set it should come from.
DescribesInvalid(stderr, r) ==
    \/ /\ InvalidChoice(r.decompiler, Decompilers)
       /\ Contains(stderr, r.decompiler[1])
       /\ Contains(stderr, "procyon") /\ Contains(stderr, "fernflower")
    \/ /\ InvalidChoice(r.deps, DepsModes)
       /\ Contains(stderr, r.deps[1])
       /\ Contains(stderr, "none") /\ Contains(stderr, "all")

\* A record returned without a completed process and without a timeout.
ShortCircuit(rec) ==
    rec.returncode = None /\ rec.timeout = FALSE /\ rec.stdout = ""

\* Every -decompiler and -deps flag of opts carries a value of its set.
EnumeratedFlagsValid(opts) ==
    \A k \in 1..Len(opts) :
        /\ opts[k].flag = "-decompiler" =>
              opts[k].value # None /\ opts[k].value[1] \in Decompilers
        /\ opts[k].flag = "-deps" =>
              opts[k].value # None /\ opts[k].value[1] \in DepsModes

---------------------------------------------------------------------------
(* Claims *)

\* C1: no exception escapes a tool operation: whatever the input, also when
\* the resolved path exists but the child cannot be spawned, the call ends
\* by returning a record with the fields returncode, stdout, stderr, timeout.
C1_NoExceptionEscapes ==
    \A i \in Invocations :
        /\ pc[i] # "raised"
        /\ Returned(i) =>
              DOMAIN Record(i) = {"returncode", "stdout", "stderr", "timeout"}

\* C2 as stated: in every returned record exactly one of "returncode is an
\* integer" and "timeout is true" holds.
C2_ExactlyOneOutcome ==
    \A i \in Invocations :
        Returned(i) => ((Record(i).returncode # None) # (Record(i).timeout = TRUE))

\* C2 as amended: a record returned after a child was spawned has exactly
\* one of "returncode is an integer" and "timeout is true"; a record returned
\* without spawning has returncode None and timeout false.
C2_OutcomeBySpawn ==
    \A i \in Invocations :
        Returned(i) =>
            IF Spawned(i)
            THEN (Record(i).returncode # None) # (Record(i).timeout = TRUE)
            ELSE Record(i).returncode = None /\ Record(i).timeout = FALSE

C2_Witness ==
    \E i \in Invocations :
        Returned(i) /\ Spawned(i) /\ Record(i).timeout = TRUE
            /\ Record(i).returncode = None

\* C3: for every tool and every value of the other parameters, a resolved
\* path that does not exist means no child is spawned and the record has
\* returncode None, timeout false, empty stdout and a stderr that names the
\* resolved path.
C3_MissingExecutable ==
    \A i \in Invocations :
        (Called(i) /\ ~Exists(Resolved(i))) =>
            /\ ~Spawned(i)
            /\ Returned(i)
            /\ ShortCircuit(Record(i))
            /\ EndsWith(Record(i).stderr, Resolved(i))

C3_Witness ==
    \E i \in Invocations :
        /\ Called(i) /\ Request(i).op = "create_database"
        /\ InvalidChoice(Request(i).decompiler, Decompilers)
        /\ ~Exists(Resolved(i))
        /\ Returned(i) /\ ~Spawned(i)

\* C4 as stated: create_database with an invalid decompiler or deps never
\* spawns and returns returncode None, timeout false, empty stdout and a
\* stderr describing the invalid value and the accepted set; and a spawned
\* command carries only valid -decompiler and -deps values.
C4_InvalidValueDescribed ==
    \A i \in Invocations :
        (Called(i) /\ Request(i).op = "create_database") =>
            /\ InvalidCreate(Request(i)) =>
                  /\ ~Spawned(i)
                  /\ Returned(i)
                  /\ ShortCircuit(Record(i))
                  /\ DescribesInvalid(Record(i).stderr, Request(i))
            /\ Spawned(i) => EnumeratedFlagsValid(FirstOptions(i))

\* C4 as amended: create_database with an invalid decompiler or deps never
\* spawns and returns returncode None, timeout false and empty stdout; its
\* stderr describes the invalid value and the accepted set when the resolved
\* executable exists and names the missing path when it does not; and a
\* spawned command carries only valid -decompiler and -deps values.
C4_InvalidValueRejected ==
    \A i \in Invocations :
        (Called(i) /\ Request(i).op = "create_database") =>
            /\ InvalidCreate(Request(i)) =>
                  /\ ~Spawned(i)
                  /\ Returned(i)
                  /\ ShortCircuit(Record(i))
                  /\ IF Exists(Resolved(i))
                     THEN DescribesInvalid(Record(i).stderr, Request(i))
                     ELSE EndsWith(Record(i).stderr, Resolved(i))
            /\ Spawned(i) => EnumeratedFlagsValid(FirstOptions(i))

C4_Witness ==
    \E i \in Invocations :
        /\ Called(i) /\ Request(i).op = "create_database"
        /\ Request(i).decompiler = Some(" Procyon")
        /\ InvalidChoice(Request(i).deps, DepsModes)
        /\ Exists(Resolved(i))
        /\ Returned(i) /\ Contains(Record(i).stderr, "Invalid deps")

\* C5: completion and timeout race and the first one decides.  When the
\* wait of a supervisor ends with the timeout, its child is sent a kill (a
\* child already gone is left as it is), and the record is returncode None,
\* empty stdout, timeout true and a stderr notice with the configured
\* duration, whatever the child had written; when it ends with the output,
\* the child has exited and the record is its exit status, its decoded
\* stdout and stderr, and timeout false.  A child still running when the
\* wait ends was timed out.
C5_CompletionOrTimeout ==
    [][\A i \in Invocations :
          (pc[i] = "waiting" /\ pc'[i] = "returned") =>
            LET n      == Len(procs[i])
                before == procs[i][n]
                after  == procs'[i][n]
                rec    == result'[i][1]
                limit  == req[i][1].timeout_seconds
            IN  \/ /\ rec.timeout = TRUE
                   /\ limit # None
                   /\ rec.returncode = None
                   /\ rec.stdout = ""
                   /\ rec.stderr =
                        "Process timeout after " \o FormatTimeout(limit) \o " seconds"
                   /\ IF before.state = "running"
                      THEN after = [before EXCEPT !.state = "killed"]
                      ELSE after = before
                \/ /\ rec.timeout = FALSE
                   /\ before.state = "exited"
                   /\ after = before
                   /\ rec.returncode = Some(before.exit[1].returncode)
                   /\ rec.stdout = Decode(before.exit[1].out)
                   /\ rec.stderr = Decode(before.exit[1].err)
                   /\ before.exit[1].out = <<104, 105>> => rec.stdout = "hi"
                   /\ before.exit[1].out = <<>> => rec.stdout = ""
    ]_vars

C5_Witness ==
    \E i \in Invocations :
        /\ Returned(i) /\ Spawned(i)
        /\ Record(i).timeout = TRUE /\ Record(i).stdout = ""
        /\ Child(i).state = "killed"

\* C6: every call that spawns a child returns, whatever timeout_seconds the
\* signature accepts and even when the child never exits: a supervisor that
\* waits eventually stops waiting.
C6_SupervisorTerminates ==
    \A i \in Invocations : (pc[i] = "waiting") ~> (pc[i] # "waiting")

\* C7: version spawns at most two children, --version and then --help;
\* --help is spawned if and only if the --version attempt did not return
\* returncode 0 with non-empty stdout, and only once that attempt is over;
\* the record returned is the record of the last attempt.
C7_VersionFallback ==
    \A i \in Invocations :
        (Called(i) /\ Request(i).op = "version") =>
            LET n == Len(procs[i]) IN
            /\ n <= 2
            /\ n >= 1 => procs[i][1].cmd = <<Resolved(i), "--version">>
            /\ n = 2 =>
                  /\ procs[i][2].cmd = <<Resolved(i), "--help">>
                  /\ procs[i][1].state # "running"
                  /\ res[i] # None
            /\ res[i] # None =>
                  (n = 2 <=> ~(res[i][1].returncode = Some(0)
                                 /\ res[i][1].stdout # ""))
            /\ (Returned(i) /\ n = 1) => Record(i) = res[i][1]
            /\ (Returned(i) /\ n = 2) =>
                  IF Record(i).timeout
                  THEN Record(i) = TimeoutResult(Request(i).timeout_seconds)
                  ELSE /\ procs[i][2].state = "exited"
                       /\ Record(i) = CompletedResult(procs[i][2].exit[1])

C7_Witness ==
    \E i \in Invocations :
        /\ Called(i) /\ Request(i).op = "version"
        /\ Len(procs[i]) = 2 /\ Returned(i)
        /\ res[i][1].returncode = Some(0) /\ res[i][1].stdout = ""
        /\ Record(i).returncode = Some(0) /\ Record(i).stdout = "hi"

\* Everything the model holds about invocation i.
StateOf(i) == <<pc[i], req[i], procs[i], res[i], result[i], exc[i]>>

\* C8: concurrent invocations share no state: a step of one invocation, a
\* timeout and its kill included, leaves the child, the outcome and the
\* record of every other invocation as they were.
C8_NoInterference ==
    [][\A i, j \in Invocations :
          (i # j /\ StateOf(i)' # StateOf(i)) => StateOf(j)' = StateOf(j)
    ]_vars

C8_Witness ==
    \E i, j \in Invocations :
        /\ i # j
        /\ Called(i) /\ Request(i).op = "scan_database"
        /\ Called(j) /\ Request(j).op = "scan_database"
        /\ Request(i).timeout_seconds # Request(j).timeout_seconds
        /\ Returned(i) /\ Record(i).timeout = TRUE /\ Child(i).state = "killed"
        /\ Returned(j) /\ Record(j).returncode = Some(0)

\* The modifiers of scan_database in the order the command line has them.
ScanOrder ==
    <<"-db", "-ql", "-goroutine", "-max-goroutines", "-threads", "-clean-cache">>

Rank(flag) == CHOOSE k \in 1..Len(ScanOrder) : ScanOrder[k] = flag

\* The value opts gives to flag, None for a switch.
ValueOf(opts, flag) ==
    opts[CHOOSE k \in 1..Len(opts) : opts[k].flag = flag].value

\* C9: scan_database's command is the resolved path, "-scan", then the
\* modifiers -db, -ql, -goroutine, -max-goroutines, -threads, -clean-cache
\* in that order, each present exactly when its own parameter was supplied;
\* with only threads=4 and clean_cache=true it ends in
\* "-scan", "-threads", "4", "-clean-cache".
C9_ScanCommand ==
    \A i \in Invocations :
        (Called(i) /\ Request(i).op = "scan_database" /\ Spawned(i)) =>
            LET r    == Request(i)
                cmd  == procs[i][1].cmd
                opts == Options(SubSeq(cmd, 3, Len(cmd)))
            IN  /\ Len(cmd) >= 2 /\ cmd[1] = Resolved(i) /\ cmd[2] = "-scan"
                /\ \A k \in 1..Len(opts) :
                      \E m \in 1..Len(ScanOrder) : opts[k].flag = ScanOrder[m]
                /\ \A k, l \in 1..Len(opts) :
                      k < l => Rank(opts[k].flag) < Rank(opts[l].flag)
                /\ HasFlag(opts, "-db") <=> Truthy(r.db)
                /\ HasFlag(opts, "-db") => ValueOf(opts, "-db") = r.db
                /\ HasFlag(opts, "-ql") <=> Truthy(r.ql)
                /\ HasFlag(opts, "-ql") => ValueOf(opts, "-ql") = r.ql
                /\ HasFlag(opts, "-goroutine") <=> r.goroutine
                /\ HasFlag(opts, "-max-goroutines") <=> r.max_goroutines # None
                /\ HasFlag(opts, "-max-goroutines") =>
                      ValueOf(opts, "-max-goroutines") = Some(Str(r.max_goroutines[1]))
                /\ HasFlag(opts, "-threads") <=> r.threads # None
                /\ HasFlag(opts, "-threads") =>
                      ValueOf(opts, "-threads") = Some(Str(r.threads[1]))
                /\ HasFlag(opts, "-clean-cache") <=> r.clean_cache
                /\ (/\ ~Truthy(r.db) /\ ~Truthy(r.ql) /\ ~r.goroutine
                    /\ r.max_goroutines = None /\ r.threads = Some(4)
                    /\ r.clean_cache) =>
                      SubSeq(cmd, Len(cmd) - 3, Len(cmd))
                          = <<"-scan", "-threads", "4", "-clean-cache">>

C9_Witness ==
    \E i \in Invocations :
        /\ Called(i) /\ Request(i).op = "scan_database" /\ Spawned(i)
        /\ Request(i).threads = Some(4) /\ Request(i).clean_cache
        /\ procs[i][1].cmd = <<"/opt/n1ght", "-scan", "-threads", "4", "-clean-cache">>

\* C10: create_database's command starts with the resolved path,
\* "-database" and the target, and has a -deps flag exactly when deps was
\* supplied non-empty (and valid); with deps None or empty the command has
\* no -deps flag, whatever the other parameters are.
C10_DepsFlag ==
    \A i \in Invocations :
        (Called(i) /\ Request(i).op = "create_database" /\ Spawned(i)) =>
            LET r    == Request(i)
                cmd  == procs[i][1].cmd
                opts == Options(Tail(cmd))
            IN  /\ Len(cmd) >= 3 /\ cmd[1] = Resolved(i)
                /\ cmd[2] = "-database" /\ cmd[3] = r.target
                /\ HasFlag(opts, "-deps") <=> Truthy(r.deps)
                /\ HasFlag(opts, "-deps") =>
                      /\ ValueOf(opts, "-deps") # None
                      /\ ValueOf(opts, "-deps")[1] \in DepsModes
                /\ Cardinality({k \in 1..Len(opts) : opts[k].flag = "-deps"}) <= 1

C10_Witness ==
    \E i \in Invocations :
        /\ Called(i) /\ Request(i).op = "create_database" /\ Spawned(i)
        /\ Request(i).deps = Some("") /\ Request(i).goroutine
        /\ Request(i).decompiler = Some("fernflower")
        /\ ~HasFlag(Options(Tail(procs[i][1].cmd)), "-deps")

=============================================================================
